---- MODULE Spec2Model ----
(***************************************************************************)
(* Model of the MDL Molfile codec of Scine::Utils                          *)
(* (src/Utils/Utils/IO/ChemicalFileFormats/MOLStreamHandler.cpp).          *)
(*                                                                         *)
(* Text is modelled character by character: a line is a sequence of        *)
(* one-character strings without its newline.  A stream is a sequence of   *)
(* lines plus the fact whether the last line is terminated by a newline.   *)
(* Bond orders are integers in units of 10^-5, coordinates are integers in *)
(* units of 10^-4 angstrom (the four decimals of the atom block).          *)
(***************************************************************************)
EXTENDS Integers, Sequences, FiniteSets, TLC

(***************************************************************************)
(* Bounds of the model                                                     *)
(***************************************************************************)
\* largest atom collection handed to write
MaxAtoms == 3
\* largest number of atom pairs with a non-zero order handed to write
MaxBonded == 2
\* largest number of lines an arbitrary input stream of read holds
MaxLines == 7

(***************************************************************************)
(* Program constants                                                       *)
(***************************************************************************)
\* `unsigned` arithmetic wraps modulo 2^UIntBits.  The code's width is 32;
\* the model checker's integers are 32-bit signed, so the modulus is scaled
\* to 2^30: every wrapped value (0u - 1, the conversion of "-1") still lies
\* far above every count a three-character field can hold.
UIntBits == 30
UIntModulus == 2 ^ UIntBits
\* bond orders are counted in units of 1/OrderScale
OrderScale == 100000
\* coordinates are counted in units of 1/CoordScale angstrom
CoordScale == 10000

(***************************************************************************)
(* Text helpers                                                            *)
(***************************************************************************)
DigitChars == <<"0", "1", "2", "3", "4", "5", "6", "7", "8", "9">>

IsDigit(c) == \E d \in 1..10 : DigitChars[d] = c

DigitVal(c) == (CHOOSE d \in 1..10 : DigitChars[d] = c) - 1

Spaces(n) == [k \in 1..n |-> " "]

MaxOf(S) == CHOOSE m \in S : \A k \in S : k <= m

MinOf(S) == CHOOSE m \in S : \A k \in S : m <= k

\* operator<< of an unsigned value: its decimal digits
RECURSIVE DecStr(_)
DecStr(n) == IF n < 10 THEN <<DigitChars[n + 1]>>
             ELSE DecStr(n \div 10) \o <<DigitChars[(n % 10) + 1]>>

\* std::setw(w) followed by one insertion: pads on the left, never truncates
SetW(w, s) == IF Len(s) >= w THEN s ELSE Spaces(w - Len(s)) \o s

\* std::fixed << std::setprecision(4) of a coordinate given in 1/CoordScale
Fixed4(v) ==
  LET a == IF v < 0 THEN 0 - v ELSE v
      frac == DecStr(a % CoordScale)
  IN  (IF v < 0 THEN <<"-">> ELSE <<>>) \o DecStr(a \div CoordScale) \o <<".">>
        \o [k \in 1..(4 - Len(frac)) |-> "0"] \o frac

\* std::string::substr(pos, n) with pos <= size()
SubStr(s, pos, n) == SubSeq(s, pos + 1, MinOf({pos + n, Len(s)}))

\* the lambda removeAllSpaces of read
removeAllSpaces(s) == SelectSeq(s, LAMBDA c : c # " ")

\* number of leading whitespace characters of s
LeadingSpaces(s) == MaxOf({k \in 0..Len(s) : \A m \in 1..k : s[m] = " "})

\* number of consecutive digits of s from the 1-based position from
DigitRun(s, from) ==
  MaxOf({k \in 0..(Len(s) + 1 - from) : \A m \in from..(from + k - 1) : IsDigit(s[m])})

RECURSIVE DigitsValue(_)
DigitsValue(s) == IF s = <<>> THEN 0
                  ELSE 10 * DigitsValue(SubSeq(s, 1, Len(s) - 1)) + DigitVal(s[Len(s)])

\* (unsigned int)std::stoul(s, &convertedChars): whitespace, an optional sign,
\* decimal digits.  ok = FALSE is std::invalid_argument (no digits); a minus
\* sign negates in unsigned arithmetic.
stoul(s) ==
  LET ws == LeadingSpaces(s)
      signed == ws < Len(s) /\ s[ws + 1] \in {"+", "-"}
      from == ws + 1 + (IF signed THEN 1 ELSE 0)
      nd == DigitRun(s, from)
      v == DigitsValue(SubSeq(s, from, from + nd - 1)) % UIntModulus
  IN  IF nd = 0 THEN [ok |-> FALSE, val |-> 0, convertedChars |-> 0]
      ELSE [ok |-> TRUE,
            val |-> IF signed /\ s[ws + 1] = "-" THEN (UIntModulus - v) % UIntModulus ELSE v,
            convertedChars |-> from + nd - 1]

\* std::stod(s): whitespace, an optional sign, digits with an optional
\* fraction; the value is returned in 1/CoordScale.  ok = FALSE is
\* std::invalid_argument.
stod(s) ==
  LET ws == LeadingSpaces(s)
      signed == ws < Len(s) /\ s[ws + 1] \in {"+", "-"}
      from == ws + 1 + (IF signed THEN 1 ELSE 0)
      ni == DigitRun(s, from)
      dot == from + ni <= Len(s) /\ s[from + ni] = "."
      nf == IF dot THEN DigitRun(s, from + ni + 1) ELSE 0
      fracDigits == SubSeq(s, from + ni + 1, from + ni + MinOf({nf, 4}))
      frac == DigitsValue(fracDigits \o [k \in 1..(4 - Len(fracDigits)) |-> "0"])
      mag == DigitsValue(SubSeq(s, from, from + ni - 1)) * CoordScale + frac
  IN  IF ni + nf = 0 THEN [ok |-> FALSE, val |-> 0]
      ELSE [ok |-> TRUE, val |-> IF signed /\ s[ws + 1] = "-" THEN 0 - mag ELSE mag]

(***************************************************************************)
(* Collaborators of the codec                                              *)
(***************************************************************************)
\* element identities of the model and the symbol each is written with
Elements == {"H", "C", "Cl"}

\* ElementInfo::symbol
symbol(e) == CASE e = "H" -> <<"H">>
               [] e = "C" -> <<"C">>
               [] e = "Cl" -> <<"C", "l">>

\* ElementInfo::elementTypeForSymbol: ok = FALSE is ElementSymbolNotFound
elementTypeForSymbol(s) ==
  IF \E e \in Elements : symbol(e) = s
  THEN [ok |-> TRUE, el |-> CHOOSE e \in Elements : symbol(e) = s]
  ELSE [ok |-> FALSE, el |-> "none"]

\* ::toupper and ::tolower on the letters of the model's alphabet
toupper(c) == CASE c = "c" -> "C" [] c = "l" -> "L" [] c = "h" -> "H"
                [] c = "x" -> "X" [] OTHER -> c

tolower(c) == CASE c = "C" -> "c" [] c = "L" -> "l" [] c = "H" -> "h"
                [] c = "X" -> "x" [] OTHER -> c

\* BondOrderCollection: a symmetric map from unordered index pairs to an
\* order; a pair without an entry has order 0.
EmptyBonds == [size |-> 0, m |-> <<>>]

PairKey(i, j) == IF i <= j THEN <<i, j>> ELSE <<j, i>>

resize(c, n) == [size |-> n, m |-> <<>>]

getOrder(c, i, j) == IF PairKey(i, j) \in DOMAIN c.m THEN c.m[PairKey(i, j)] ELSE 0

\* indices the collection has an order for: two distinct atoms below its size
InDomain(c, i, j) == i # j /\ i < c.size /\ j < c.size

setOrder(c, i, j, o) ==
  [c EXCEPT !.m = [p \in (DOMAIN c.m) \cup {PairKey(i, j)} |->
                     IF p = PairKey(i, j) THEN o ELSE c.m[p]]]

(***************************************************************************)
(* MOLStreamHandler::write                                                 *)
(***************************************************************************)
\* N - 1 of the loop header `i < N - 1`, in unsigned arithmetic
LoopBound(N) == (N + UIntModulus - 1) % UIntModulus

\* variant: the inner loop runs while `j <= N - 1`, which wraps for N = 0
LoopPairsInclusive(N) ==
  {p \in (0..MaxAtoms) \X (0..MaxAtoms) :
     p[1] < LoopBound(N) /\ p[1] + 1 <= p[2] /\ p[2] <= LoopBound(N)}

\* the pairs (i, j) for which the body of the nested loops runs
LoopPairs(N) ==
  {p \in (0..(N - 1)) \X (0..(N - 1)) : p[1] < LoopBound(N) /\ p[1] + 1 <= p[2] /\ p[2] < N}

\* the same pairs in the order the loops visit them
PairsInOrder(N) ==
  LET S == LoopPairs(N)
      Before(q, p) == q[1] < p[1] \/ (q[1] = p[1] /\ q[2] < p[2])
  IN  [k \in 1..Cardinality(S) |->
         CHOOSE p \in S : Cardinality({q \in S : Before(q, p)}) = k - 1]

\* variant: the lower limit is excluded, `0.5 < order`
CountsForValenceStrict(order) == 5 * OrderScale < 10 * order /\ 10 * order < 35 * OrderScale

\* the test `0.5 <= order && order < 3.5` of the valence count
CountsForValence(order) == 5 * OrderScale <= 10 * order /\ 10 * order < 35 * OrderScale

\* variant: the conversion to unsigned truncates, std::round is missing
RoundOrderTruncating(order) == order \div OrderScale

\* unsigned bondOrder = std::round(order), for an order >= 0
RoundOrder(order) == (2 * order + OrderScale) \div (2 * OrderScale)

\* variant: the upper limit is included, `bondOrder <= 4`
EmitsBondLineUpTo4(order) == 0 < RoundOrder(order) /\ RoundOrder(order) <= 4

\* the test `0 < bondOrder && bondOrder < 4` of the bond block
EmitsBondLine(order) == 0 < RoundOrder(order) /\ RoundOrder(order) < 4

\* the vector valences after the counting loops
Valences(atoms, bonds) ==
  [k \in 0..(Len(atoms) - 1) |->
     IF bonds.present
     THEN Cardinality({p \in LoopPairs(Len(atoms)) :
                         (p[1] = k \/ p[2] = k) /\ CountsForValence(getOrder(bonds.coll, p[1], p[2]))})
     ELSE 0]

RECURSIVE SumTo(_, _)
SumTo(f, n) == IF n < 0 THEN 0 ELSE f[n] + SumTo(f, n - 1)

\* const unsigned B = std::accumulate(valences) / 2
BondCount(atoms, bonds) == SumTo(Valences(atoms, bonds), Len(atoms) - 1) \div 2

NameLine == <<"U", "n", "n", "a", "m", "e", "d", " ", "M", "o", "l", "e", "c", "u", "l", "e">>

ProgramLine(stamp) == SetW(2, <<"#", "#">>) \o SetW(8, <<"S", "C", "I", "N", "E">>) \o stamp \o <<"3", "D">>

Zero3 == SetW(3, DecStr(0))

WCountsLine(N, B, formatVersion) ==
  SetW(3, DecStr(N)) \o SetW(3, DecStr(B)) \o Zero3 \o Zero3 \o Zero3 \o Zero3
    \o Zero3 \o Zero3 \o Zero3 \o Zero3 \o SetW(3, DecStr(999)) \o SetW(6, formatVersion)

WAtomLine(atom, valence) ==
  SetW(10, Fixed4(atom.pos[1])) \o SetW(10, Fixed4(atom.pos[2])) \o SetW(10, Fixed4(atom.pos[3]))
    \o <<" ">> \o SetW(3, symbol(atom.el)) \o SetW(2, DecStr(0))
    \o Zero3 \o Zero3 \o Zero3 \o Zero3 \o SetW(3, DecStr(valence))
    \o Zero3 \o Zero3 \o Zero3 \o Zero3 \o Zero3 \o Zero3

\* variant: the atom indices are written as they are, 0-based
WBondLineZeroBased(i, j, bondOrder) ==
  SetW(3, DecStr(i)) \o SetW(3, DecStr(j)) \o SetW(3, DecStr(bondOrder))
    \o Zero3 \o Zero3 \o Zero3 \o Zero3

WBondLine(i, j, bondOrder) ==
  SetW(3, DecStr(1 + i)) \o SetW(3, DecStr(1 + j)) \o SetW(3, DecStr(bondOrder))
    \o Zero3 \o Zero3 \o Zero3 \o Zero3

WAtomBlock(atoms, bonds) ==
  [k \in 1..Len(atoms) |-> WAtomLine(atoms[k], Valences(atoms, bonds)[k - 1])]

WBondBlock(atoms, bonds) ==
  IF bonds.present
  THEN LET ps == SelectSeq(PairsInOrder(Len(atoms)),
                           LAMBDA p : EmitsBondLine(getOrder(bonds.coll, p[1], p[2])))
       IN  [k \in 1..Len(ps) |->
              WBondLine(ps[k][1], ps[k][2], RoundOrder(getOrder(bonds.coll, ps[k][1], ps[k][2])))]
  ELSE <<>>

EndLine == <<"M", " ", "E", "N", "D">>

\* the text write leaves in the stream: every line but the last ends with a
\* newline, "M END" does not
WriteText(atoms, bonds, formatVersion, stamp) ==
  [lines |-> <<NameLine, ProgramLine(stamp), <<>>,
               WCountsLine(Len(atoms), BondCount(atoms, bonds), formatVersion)>>
               \o WAtomBlock(atoms, bonds) \o WBondBlock(atoms, bonds) \o <<EndLine>>,
   term |-> FALSE]

\* the pairs getOrder is called for
QueriedPairs(atoms, bonds) == IF bonds.present THEN LoopPairs(Len(atoms)) ELSE {}

V2000 == <<"V", "2", "0", "0", "0">>
V3000 == <<"V", "3", "0", "0", "0">>

(***************************************************************************)
(* Inputs                                                                  *)
(***************************************************************************)
\* coordinates handed to write: 0, -1.5 and 100000 angstrom; the last one
\* needs eleven characters in fixed notation
CoordValues == {0, 0 - 15000, 100000 * CoordScale}

\* orders handed to write: 0, 0.49999, 0.5, 2, 3.49999 and 3.5
OrderValues == {0, 49999, 50000, 200000, 349999, 350000}

\* atom collections handed to write; the coordinate varies on the x axis
\* atom collections handed to write without bond data: every element
\* sequence, the x coordinate of the first atom varied
AtomInputs ==
  UNION {{[k \in 1..n |-> [el |-> els[k], pos |-> <<(IF k = 1 THEN x ELSE 0), 0, 0>>]] :
            els \in [1..n -> Elements], x \in CoordValues} : n \in 0..MaxAtoms}

\* atom collections handed to write together with bond data: the elements
\* C, Cl, H in turn, every atom at the origin
BondedAtomInputs ==
  {[k \in 1..n |-> [el |-> (CASE k % 3 = 1 -> "C" [] k % 3 = 2 -> "Cl" [] OTHER -> "H"),
                     pos |-> <<0, 0, 0>>]] : n \in 0..MaxAtoms}

AllPairs(n) == {p \in (0..(n - 1)) \X (0..(n - 1)) : p[1] < p[2]}

\* bond-order collections over n atoms with at most MaxBonded entries
BondColls(n) ==
  UNION {[ps -> OrderValues \ {0}] : ps \in {q \in SUBSET AllPairs(n) : Cardinality(q) <= MaxBonded}}

\* boost::none
NoBonds == [present |-> FALSE, coll |-> EmptyBonds]

\* the bond-order collections handed to write over n atoms
BondInputs(n) == {[present |-> TRUE, coll |-> [size |-> n, m |-> f]] : f \in BondColls(n)}

\* the ten digits std::put_time leaves for "%m%d%y%H%M"
Stamps == {<<"1", "1", "0", "3", "2", "6", "2", "1", "0", "4">>}

\* values of the process-wide locale before a call
Locales == {"C", "de_DE"}

F3(n) == SetW(3, DecStr(n))

Bad3 == <<" ", " ", "x">>
Left3 == <<"1", " ", " ">>
Tail33 == Zero3 \o Zero3 \o Zero3 \o Zero3 \o Zero3 \o Zero3 \o Zero3 \o Zero3 \o SetW(3, DecStr(999))

\* a version tag that is neither V2000 nor V3000
OtherTag == <<"V", "2", "0", "0", "1">>

\* lines that qualify as counts lines, and lines that fail one check each
CountsPool ==
  {F3(a) \o F3(b) \o Tail33 \o <<" ">> \o V2000 : a \in 0..2, b \in 0..2}
    \cup {F3(a) \o F3(b) \o Tail33 \o <<" ">> \o OtherTag : a \in {0, 2}, b \in {0, 1}}
    \cup {F3(2) \o F3(1) \o Tail33 \o <<" ">> \o V3000}
    \cup {Bad3 \o F3(1) \o Tail33 \o <<" ">> \o V2000,
          Left3 \o F3(1) \o Tail33 \o <<" ">> \o V2000,
          F3(2) \o Bad3 \o Tail33 \o <<" ">> \o V2000,
          F3(2) \o Left3 \o Tail33 \o <<" ">> \o V2000,
          SubSeq(F3(1) \o F3(0) \o Tail33 \o <<" ">> \o V2000, 1, 37)}

AtomTail == SetW(2, DecStr(0)) \o Zero3 \o Zero3 \o Zero3 \o Zero3 \o Zero3
              \o Zero3 \o Zero3 \o Zero3 \o Zero3 \o Zero3 \o Zero3

PoolAtom(x, sym) == x \o SetW(10, Fixed4(0)) \o SetW(10, Fixed4(0)) \o <<" ">> \o sym \o AtomTail

AtomPool ==
  {PoolAtom(SetW(10, Fixed4(0)), sym) :
     sym \in {<<" ", " ", "C">>, <<"C", "L", " ">>, <<" ", "X", "x">>, <<" ", " ", " ">>}}
    \cup {PoolAtom(SetW(10, Fixed4(0 - 15000)), <<" ", "c", "l">>),
          PoolAtom(SetW(10, <<"x">>), <<" ", " ", "C">>),
          SubSeq(PoolAtom(SetW(10, Fixed4(0)), <<" ", " ", "C">>), 1, 33)}

PoolBond(a, b, t) == a \o b \o t \o Zero3 \o Zero3 \o Zero3 \o Zero3

BondPool ==
  {PoolBond(F3(1), F3(2), F3(t)) : t \in {0, 1, 3, 4}}
    \cup {PoolBond(F3(2), F3(1), F3(t)) : t \in {1, 2}}
    \cup {PoolBond(F3(p[1]), F3(p[2]), F3(1)) : p \in {<<0, 1>>, <<1, 3>>, <<1, 1>>}}
    \cup {PoolBond(F3(1), F3(2), Bad3), PoolBond(Left3, F3(2), F3(1)),
          PoolBond(F3(1), F3(2), <<" ", "-", "1">>),
          SubSeq(PoolBond(F3(1), F3(2), F3(1)), 1, 8)}

\* the lines an arbitrary input stream is made of
Pool == CountsPool \cup AtomPool \cup BondPool \cup {EndLine, <<>>}

(***************************************************************************)
(* State                                                                   *)
(***************************************************************************)
VARIABLES
  pc,            \* position of the caller and of read
  inAtoms,       \* write: the atom collection
  inBonds,       \* write: the optional bond-order collection
  os,            \* the text write produced: [lines, term]
  queried,       \* write: the pairs getOrder was called for
  src,           \* where read's stream comes from: "os" or "env"
  is,            \* read's stream: lines consumed, eofbit, failbit
  locale,        \* the process-wide locale
  scopedLocale,  \* read: the locale the ScopedLocale object restores
  errno,         \* the process-wide errno
  priorErrno,    \* read: local
  line,          \* read: local
  atomBlockSize, \* read: local
  bondBlockSize, \* read: local
  versionString, \* read: local
  atoms,         \* read: local, [size, parsed]
  bondOrders,    \* read: local
  i,             \* read: loop counter of the atom or the bond block
  countsLineNo,  \* number of the line the scan left as counts line (history)
  localeAtCall,  \* the process-wide locale when read was called (history)
  lastLine,      \* the string the last std::getline call left in line (history)
  result,        \* how read ended: "none" while it runs
  ret,           \* the pair read returned
  format         \* the format name of the last call through the dispatch (history)

vars == <<pc, inAtoms, inBonds, os, queried, src, is, locale, scopedLocale, errno,
          priorErrno, line, atomBlockSize, bondBlockSize, versionString, atoms,
          bondOrders, i, countsLineNo, localeAtCall, lastLine, result, ret, format>>

\* what the steps of read(std::istream&) leave alone
writeVars == <<inAtoms, inBonds, os, queried, src, format>>

NoAtoms == [size |-> 0, parsed |-> <<>>]
NoRet == [atoms |-> NoAtoms, bonds |-> EmptyBonds]
NoText == [lines |-> <<>>, term |-> TRUE]

\* read's locals before they are initialised and after they are destroyed
LocalsCleared ==
  /\ priorErrno' = 0
  /\ line' = <<>>
  /\ atomBlockSize' = 0
  /\ bondBlockSize' = 0
  /\ versionString' = <<>>
  /\ atoms' = NoAtoms
  /\ bondOrders' = EmptyBonds
  /\ i' = 0

\* what both kinds of caller start from
InitCommon ==
  /\ locale \in Locales
  /\ errno = 1
  /\ os = NoText
  /\ queried = {}
  /\ is = [pos |-> 0, eof |-> FALSE, fail |-> FALSE]
  /\ scopedLocale = "none"
  /\ priorErrno = 0
  /\ line = <<>>
  /\ atomBlockSize = 0
  /\ bondBlockSize = 0
  /\ versionString = <<>>
  /\ atoms = NoAtoms
  /\ bondOrders = EmptyBonds
  /\ i = 0
  /\ countsLineNo = 0
  /\ localeAtCall = "none"
  /\ lastLine = <<>>
  /\ result = "none"
  /\ ret = NoRet
  /\ format = "none"

\* a caller that writes a molecule and reads the text back
InitWrite ==
  /\ pc = "w_call"
  /\ src = "os"
  /\ \/ /\ inAtoms \in AtomInputs
        /\ inBonds = NoBonds
     \/ /\ inAtoms \in BondedAtomInputs
        /\ inBonds \in BondInputs(Len(inAtoms))
  /\ InitCommon

\* a caller that reads an arbitrary stream
InitRead ==
  /\ pc = "r_call"
  /\ src = "env"
  /\ inAtoms = <<>>
  /\ inBonds = NoBonds
  /\ InitCommon

Init == InitWrite \/ InitRead

(***************************************************************************)
(* The dispatch: read(is, format), write(os, format, atoms) and            *)
(* write(os, format, atoms, bondOrders)                                    *)
(***************************************************************************)
\* format names a caller asks for
Formats == {"mol", "MOL", "xyz", ""}

\* variant: the format name is compared without regard to case
UnsupportedIgnoringCase(f) == f \notin {"mol", "MOL"}

\* the test `format != "mol"` of the three dispatch functions
Unsupported(f) == f # "mol"

\* lines 59-66
formatSupported(f) == IF f = "mol" THEN TRUE ELSE FALSE

\* throw FormatUnsupportedException() as the first statement of a dispatch
\* function: the call is over, no argument was used
ThrowUnsupported(f, after) ==
  /\ format' = f
  /\ result' = "FormatUnsupported"
  /\ pc' = after
  /\ UNCHANGED <<inAtoms, inBonds, os, queried, src, is, locale, scopedLocale, errno,
                 priorErrno, line, atomBlockSize, bondBlockSize, versionString, atoms,
                 bondOrders, i, countsLineNo, localeAtCall, lastLine, ret>>

\* lines 38-53 and 74-188: the overload without bond data hands boost::none
\* to the codec, the other one the collection; both ask for "V2000"
Write ==
  /\ pc = "w_call"
  /\ \E f \in Formats :
       IF Unsupported(f) THEN ThrowUnsupported(f, "w_failed")
       ELSE /\ format' = f
            /\ \E stamp \in Stamps : os' = WriteText(inAtoms, inBonds, V2000, stamp)
            /\ queried' = QueriedPairs(inAtoms, inBonds)
            /\ pc' = "w_done"
            /\ UNCHANGED <<inAtoms, inBonds, src, is, locale, scopedLocale, errno, priorErrno,
                           line, atomBlockSize, bondBlockSize, versionString, atoms,
                           bondOrders, i, countsLineNo, localeAtCall, lastLine, result, ret>>

(***************************************************************************)
(* The input stream                                                        *)
(***************************************************************************)
\* is.ignore(max, '\n'): the stream states one skipLine can leave
SkipLine(st) ==
  IF st.eof \/ st.fail THEN {[st EXCEPT !.fail = TRUE]}
  ELSE IF src = "os"
  THEN IF st.pos >= Len(os.lines) THEN {[st EXCEPT !.eof = TRUE]}
       ELSE {[pos |-> st.pos + 1, eof |-> (st.pos + 1 = Len(os.lines) /\ ~os.term), fail |-> FALSE]}
  ELSE {[st EXCEPT !.eof = TRUE]}
         \cup (IF st.pos < MaxLines
               THEN {[pos |-> st.pos + 1, eof |-> e, fail |-> FALSE] : e \in BOOLEAN}
               ELSE {})

\* std::getline(is, line): the stream states and lines one call can leave.
\* A stream that is not good leaves the string untouched; a line without a
\* newline sets eofbit; extracting nothing sets failbit as well.
GetLine(st, cur) ==
  IF st.eof \/ st.fail THEN {[st |-> [st EXCEPT !.fail = TRUE], line |-> cur]}
  ELSE IF src = "os"
  THEN IF st.pos >= Len(os.lines)
       THEN {[st |-> [st EXCEPT !.eof = TRUE, !.fail = TRUE], line |-> <<>>]}
       ELSE LET l == os.lines[st.pos + 1]
                last == st.pos + 1 = Len(os.lines) /\ ~os.term
            IN  {[st |-> [pos |-> st.pos + 1, eof |-> last, fail |-> last /\ l = <<>>],
                  line |-> l]}
  ELSE {[st |-> [st EXCEPT !.eof = TRUE, !.fail = TRUE], line |-> <<>>]}
         \cup (IF st.pos < MaxLines
               THEN {[st |-> [pos |-> st.pos + 1, eof |-> e, fail |-> FALSE], line |-> l] :
                       l \in Pool, e \in BOOLEAN} \ {[st |-> [pos |-> st.pos + 1, eof |-> TRUE, fail |-> FALSE], line |-> <<>>]}
               ELSE {})

(***************************************************************************)
(* MOLStreamHandler::read(std::istream&)                                   *)
(***************************************************************************)
\* ScopedLocale::cLocale(): remembers the process-wide locale, sets "C"
ScopedLocaleAcquire ==
  /\ scopedLocale' = locale
  /\ locale' = "C"

\* the destructor of the ScopedLocale object
ScopedLocaleRelease ==
  /\ locale' = scopedLocale
  /\ scopedLocale' = "none"

\* variant: the locale is put back by hand on the success path only
ThrowKeepLocale(kind, st, l) ==
  /\ result' = kind
  /\ ret' = NoRet
  /\ is' = st
  /\ lastLine' = l
  /\ pc' = "r_done"
  /\ LocalsCleared
  /\ UNCHANGED <<locale, scopedLocale, errno, countsLineNo, localeAtCall>>
  /\ UNCHANGED writeVars

\* an exception leaves read: the stack is unwound, nothing is returned
Throw(kind, st, l) ==
  /\ result' = kind
  /\ ret' = NoRet
  /\ is' = st
  /\ lastLine' = l
  /\ pc' = "r_done"
  /\ ScopedLocaleRelease
  /\ LocalsCleared
  /\ UNCHANGED <<errno, countsLineNo, localeAtCall>>
  /\ UNCHANGED writeVars

\* undefined behaviour ends the process: no object is destroyed
Fault(st, l) ==
  /\ result' = "fault"
  /\ ret' = NoRet
  /\ is' = st
  /\ lastLine' = l
  /\ pc' = "r_done"
  /\ LocalsCleared
  /\ UNCHANGED <<locale, scopedLocale, errno, countsLineNo, localeAtCall>>
  /\ UNCHANGED writeVars

\* lines 27-33 and 194-198: the caller hands read a fresh stream, or the
\* text of write, and a format name
ReadCall ==
  /\ pc \in {"r_call", "w_done"}
  /\ \E f \in Formats :
       IF Unsupported(f) THEN ThrowUnsupported(f, "r_done")
       ELSE /\ format' = f
            /\ ScopedLocaleAcquire
            /\ localeAtCall' = locale
            /\ priorErrno' = errno
            /\ errno' = 0
            /\ pc' = "r_header"
            /\ UNCHANGED <<is, line, atomBlockSize, bondBlockSize, versionString, atoms,
                           bondOrders, i, countsLineNo, lastLine, result, ret>>
            /\ UNCHANGED <<inAtoms, inBonds, os, queried, src>>

\* lines 214-221: the three skipLine calls
SkipHeader ==
  /\ pc = "r_header"
  /\ \E s1 \in SkipLine(is) : \E s2 \in SkipLine(s1) : is' \in SkipLine(s2)
  /\ pc' = "r_scan"
  /\ UNCHANGED <<locale, scopedLocale, errno, priorErrno, line, atomBlockSize, bondBlockSize,
                 versionString, atoms, bondOrders, i, countsLineNo, localeAtCall, lastLine,
                 result, ret>>
  /\ UNCHANGED writeVars

\* variant: the number of converted characters of bbb is not tested
ScanBodyLooseBonds(l, aOld, bOld) ==
  LET a == stoul(SubStr(l, 0, 3))
      b == stoul(SubStr(l, 3, 3))
  IN  IF Len(l) < 38 THEN [a |-> aOld, b |-> bOld, brk |-> FALSE]
      ELSE IF ~a.ok THEN [a |-> aOld, b |-> bOld, brk |-> FALSE]
      ELSE IF a.convertedChars # 3 THEN [a |-> 0, b |-> bOld, brk |-> FALSE]
      ELSE IF ~b.ok THEN [a |-> a.val, b |-> bOld, brk |-> FALSE]
      ELSE [a |-> a.val, b |-> b.val, brk |-> TRUE]

\* the checks of the loop body on one line: what the iteration leaves in
\* atomBlockSize and bondBlockSize and whether it reaches the break
ScanBody(l, aOld, bOld) ==
  LET a == stoul(SubStr(l, 0, 3))
      b == stoul(SubStr(l, 3, 3))
  IN  IF Len(l) < 38 THEN [a |-> aOld, b |-> bOld, brk |-> FALSE]
      ELSE IF ~a.ok THEN [a |-> aOld, b |-> bOld, brk |-> FALSE]
      ELSE IF a.convertedChars # 3 THEN [a |-> 0, b |-> bOld, brk |-> FALSE]
      ELSE IF ~b.ok THEN [a |-> a.val, b |-> bOld, brk |-> FALSE]
      ELSE IF b.convertedChars # 3 THEN [a |-> a.val, b |-> 0, brk |-> FALSE]
      ELSE [a |-> a.val, b |-> b.val, brk |-> TRUE]

\* lines 236-265: one evaluation of the loop condition and one iteration
ScanLine ==
  /\ pc = "r_scan"
  /\ \E g \in GetLine(is, line) :
       /\ is' = g.st
       /\ line' = g.line
       /\ lastLine' = g.line
       /\ IF g.st.fail
          THEN /\ pc' = "r_scanned"
               /\ UNCHANGED <<atomBlockSize, bondBlockSize, countsLineNo>>
          ELSE LET r == ScanBody(g.line, atomBlockSize, bondBlockSize)
               IN  /\ atomBlockSize' = r.a
                   /\ bondBlockSize' = r.b
                   /\ pc' = IF r.brk THEN "r_scanned" ELSE "r_scan"
                   /\ countsLineNo' = IF r.brk THEN g.st.pos ELSE countsLineNo
  /\ UNCHANGED <<locale, scopedLocale, errno, priorErrno, versionString, atoms, bondOrders,
                 i, localeAtCall, result, ret>>
  /\ UNCHANGED writeVars

\* the version tag of the counts line
VersionOf(l) == removeAllSpaces(SubStr(l, 33, Len(l)))

\* lines 267-277: the end-of-stream test, the version tag, the collection
AfterScan ==
  /\ pc = "r_scanned"
  /\ IF is.eof THEN Throw("FormatMismatch", is, lastLine)
     ELSE IF VersionOf(line) = V3000 THEN Throw("logic_error", is, lastLine)
     ELSE /\ versionString' = VersionOf(line)
          /\ atoms' = [size |-> atomBlockSize, parsed |-> <<>>]
          /\ i' = 0
          /\ pc' = "r_atoms"
          /\ UNCHANGED <<is, locale, scopedLocale, errno, priorErrno, line, atomBlockSize,
                         bondBlockSize, bondOrders, countsLineNo, localeAtCall, lastLine,
                         result, ret>>
          /\ UNCHANGED writeVars

\* lines 299-303: the symbol field without spaces, first character upper
\* case, the others lower case (for a non-empty string)
NormalizeSymbol(s) == [k \in 1..Len(s) |-> IF k = 1 THEN toupper(s[k]) ELSE tolower(s[k])]

\* what the two std::transform calls can do to an empty string: the second
\* range starts one past its end, which is undefined
EmptySymbolOutcomes == {"fault", "FormatMismatch"}

\* variant: the atom block is entered whatever the version tag is
InAtomLoopAnyVersion == i < atomBlockSize

\* lines 280-281: the atom block is entered for V2000 only
InAtomLoop == versionString = V2000 /\ i < atomBlockSize

\* lines 281-316: one iteration of the atom block
AtomLine ==
  /\ pc = "r_atoms"
  /\ InAtomLoop
  /\ \E g \in GetLine(is, line) :
       LET l == g.line
           x == stod(SubStr(l, 0, 10))
           y == stod(SubStr(l, 10, 10))
           z == stod(SubStr(l, 20, 10))
           elementStr == removeAllSpaces(SubStr(l, 31, 3))
           f == elementTypeForSymbol(NormalizeSymbol(elementStr))
       IN  IF Len(l) < 34 THEN Throw("FormatMismatch", g.st, l)
           ELSE IF ~x.ok \/ ~y.ok \/ ~z.ok THEN Throw("FormatMismatch", g.st, l)
           ELSE IF elementStr = <<>>
           THEN \E o \in EmptySymbolOutcomes :
                  IF o = "fault" THEN Fault(g.st, l) ELSE Throw("FormatMismatch", g.st, l)
           ELSE IF ~f.ok THEN Throw("FormatMismatch", g.st, l)
           ELSE /\ atoms' = [atoms EXCEPT !.parsed =
                               Append(@, [el |-> f.el, pos |-> <<x.val, y.val, z.val>>])]
                /\ i' = i + 1
                /\ is' = g.st
                /\ line' = l
                /\ lastLine' = l
                /\ UNCHANGED <<pc, locale, scopedLocale, errno, priorErrno, atomBlockSize,
                               bondBlockSize, versionString, bondOrders, countsLineNo,
                               localeAtCall, result, ret>>
                /\ UNCHANGED writeVars

\* lines 317-323: the atom block is over; the bond collection is created
AtomBlockEnd ==
  /\ pc = "r_atoms"
  /\ ~InAtomLoop
  /\ bondOrders' = IF bondBlockSize > 0 THEN resize(EmptyBonds, atomBlockSize) ELSE EmptyBonds
  /\ i' = 0
  /\ pc' = "r_bonds"
  /\ UNCHANGED <<is, locale, scopedLocale, errno, priorErrno, line, atomBlockSize,
                 bondBlockSize, versionString, atoms, countsLineNo, localeAtCall, lastLine,
                 result, ret>>
  /\ UNCHANGED writeVars

\* what BondOrderCollection::setOrder can do with indices outside its domain
SetOrderOutcomes == {"stores", "throws"}

\* the three fields of a bond line: ok = FALSE is one of the exceptions the
\* try block turns into FormatMismatchException
BondFields(l) ==
  LET fa == stoul(SubStr(l, 0, 3))
      fb == stoul(SubStr(l, 3, 3))
      ft == stoul(SubStr(l, 6, 3))
  IN  [ok |-> /\ fa.ok /\ fa.convertedChars = 3
              /\ fb.ok /\ fb.convertedChars = 3
              /\ ft.ok /\ ft.convertedChars = 3,
       a |-> (fa.val + UIntModulus - 1) % UIntModulus,
       b |-> (fb.val + UIntModulus - 1) % UIntModulus,
       molBondSpecifier |-> ft.val]

\* variant: the upper limit is included, `molBondSpecifier <= 4`
RecordsBondUpTo4(t) == 0 < t /\ t <= 4

\* the test `0 < molBondSpecifier && molBondSpecifier < 4`
RecordsBond(t) == 0 < t /\ t < 4

\* lines 325-356: one iteration of the bond block
BondLine ==
  /\ pc = "r_bonds"
  /\ i < bondBlockSize
  /\ \E g \in GetLine(is, line) :
       LET l == g.line
           bf == BondFields(l)
           Continue(newBonds) ==
             /\ bondOrders' = newBonds
             /\ i' = i + 1
             /\ is' = g.st
             /\ line' = l
             /\ lastLine' = l
             /\ UNCHANGED <<pc, locale, scopedLocale, errno, priorErrno, atomBlockSize,
                            bondBlockSize, versionString, atoms, countsLineNo,
                            localeAtCall, result, ret>>
             /\ UNCHANGED writeVars
       IN  IF Len(l) < 9 THEN Throw("FormatMismatch", g.st, l)
           ELSE IF ~bf.ok THEN Throw("FormatMismatch", g.st, l)
           ELSE IF ~RecordsBond(bf.molBondSpecifier) THEN Continue(bondOrders)
           ELSE IF InDomain(bondOrders, bf.a, bf.b)
           THEN Continue(setOrder(bondOrders, bf.a, bf.b, bf.molBondSpecifier))
           ELSE \E o \in SetOrderOutcomes :
                  IF o = "throws" THEN Throw("range_error", g.st, l)
                  ELSE Continue(setOrder(bondOrders, bf.a, bf.b, bf.molBondSpecifier))

\* lines 359-364: errno is put back, the pair is returned
ReadReturn ==
  /\ pc = "r_bonds"
  /\ ~(i < bondBlockSize)
  /\ errno' = priorErrno
  /\ ret' = [atoms |-> atoms, bonds |-> bondOrders]
  /\ result' = "ok"
  /\ pc' = "r_done"
  /\ ScopedLocaleRelease
  /\ LocalsCleared
  /\ UNCHANGED <<is, countsLineNo, localeAtCall, lastLine>>
  /\ UNCHANGED writeVars

Next ==
  \/ Write
  \/ ReadCall
  \/ SkipHeader
  \/ ScanLine
  \/ AfterScan
  \/ AtomLine
  \/ AtomBlockEnd
  \/ BondLine
  \/ ReadReturn

\* read on its own
NextRead ==
  \/ ReadCall
  \/ SkipHeader
  \/ ScanLine
  \/ AfterScan
  \/ AtomLine
  \/ AtomBlockEnd
  \/ BondLine
  \/ ReadReturn

Spec == Init /\ [][Next]_vars

\* write followed by read of the written text
SpecWrite == InitWrite /\ [][Next]_vars

\* read of an arbitrary stream
SpecRead == InitRead /\ [][NextRead]_vars

(***************************************************************************)
(* Properties of write and of write followed by read                       *)
(***************************************************************************)
\* the unsigned value of the 3-character field of l at offset pos
Field3(l, pos) == stoul(SubStr(l, pos, 3)).val

\* the nearest integer of an order >= 0, halves rounded up
Nearest(o) ==
  CHOOSE r \in 0..5 : 2 * r * OrderScale - OrderScale <= 2 * o /\ 2 * o < 2 * r * OrderScale + OrderScale

\* the order of the pair p handed to write
InOrder(p) == IF inBonds.present THEN getOrder(inBonds.coll, p[1], p[2]) ELSE 0

\* the bond block of the written text
WrittenBondBlock == SubSeq(os.lines, 5 + Len(inAtoms), Len(os.lines) - 1)

\* the written molecule fits the fields of the format: every coordinate in
\* ten characters, atom and bond count in three
FitsFormat ==
  /\ Len(inAtoms) <= 999
  /\ Cardinality({p \in AllPairs(Len(inAtoms)) : Nearest(InOrder(p)) \in 1..3}) <= 999
  /\ \A k \in 1..Len(inAtoms) : \A c \in 1..3 :
       inAtoms[k].pos[c] > 0 - 10000 * CoordScale /\ inAtoms[k].pos[c] < 100000 * CoordScale

\* C1 (as stated): reading the written text succeeds and returns the
\* elements and, for every pair, the original order rounded to the nearest
\* integer.
C1_Original ==
  (pc = "r_done" /\ format = "mol" /\ src = "os" /\ inBonds.present) =>
    /\ result = "ok"
    /\ ret.atoms.size = Len(inAtoms)
    /\ Len(ret.atoms.parsed) = Len(inAtoms)
    /\ \A k \in 1..Len(inAtoms) : ret.atoms.parsed[k].el = inAtoms[k].el
    /\ \A p \in AllPairs(Len(inAtoms)) : getOrder(ret.bonds, p[1], p[2]) = Nearest(InOrder(p))

\* C1 (amended): for a molecule that fits the fields of the format, reading
\* the written text succeeds and returns the same number of atoms, the same
\* element at every index and, for every pair i<j, the original order
\* rounded to the nearest integer if that is 1, 2 or 3 and no bond otherwise.
C1_RoundTrip ==
  (pc = "r_done" /\ format = "mol" /\ src = "os" /\ FitsFormat) =>
    /\ result = "ok"
    /\ ret.atoms.size = Len(inAtoms)
    /\ Len(ret.atoms.parsed) = Len(inAtoms)
    /\ \A k \in 1..Len(inAtoms) : ret.atoms.parsed[k].el = inAtoms[k].el
    /\ DOMAIN ret.bonds.m \subseteq AllPairs(Len(inAtoms))
    /\ \A p \in AllPairs(Len(inAtoms)) :
         getOrder(ret.bonds, p[1], p[2]) =
           IF Nearest(InOrder(p)) \in 1..3 THEN Nearest(InOrder(p)) ELSE 0

\* a molecule of three atoms with one order of 3.49999 and one of 3.5 has
\* been written and read back
C1_Witness ==
  /\ pc = "r_done" /\ src = "os" /\ result = "ok" /\ FitsFormat
  /\ Len(inAtoms) = 3 /\ inBonds.present
  /\ InOrder(<<1, 2>>) = 349999 /\ InOrder(<<0, 1>>) = 350000
  /\ getOrder(ret.bonds, 1, 2) = 3 /\ getOrder(ret.bonds, 0, 1) = 0

\* C5: with bond data, the bond block holds one line for the pair i<j
\* exactly if its order rounds to 1, 2 or 3, the line names i+1 and j+1 and
\* its type is the rounded order; without bond data the block is empty.
C5_BondLines ==
  (pc # "w_call" /\ format = "mol" /\ src = "os") =>
    LET N == Len(inAtoms)
        bb == WrittenBondBlock
        LinesOf(p) == {k \in 1..Len(bb) : Field3(bb[k], 0) = p[1] + 1 /\ Field3(bb[k], 3) = p[2] + 1}
    IN  /\ os.lines[Len(os.lines)] = EndLine
        /\ IF inBonds.present
           THEN /\ \A p \in AllPairs(N) :
                     IF Nearest(InOrder(p)) \in 1..3
                     THEN /\ Cardinality(LinesOf(p)) = 1
                          /\ \A k \in LinesOf(p) : Field3(bb[k], 6) = Nearest(InOrder(p))
                     ELSE LinesOf(p) = {}
                /\ \A k \in 1..Len(bb) :
                     /\ Len(bb[k]) = 21
                     /\ <<Field3(bb[k], 0) - 1, Field3(bb[k], 3) - 1>> \in AllPairs(N)
           ELSE bb = <<>>

\* a molecule with an order of 3.49999 (written as type 3) and an order of
\* 3.5 (not written) has been written
C5_Witness ==
  /\ pc = "w_done" /\ inBonds.present /\ Len(inAtoms) = 3
  /\ InOrder(<<0, 2>>) = 349999 /\ InOrder(<<1, 2>>) = 350000
  /\ Len(WrittenBondBlock) = 1 /\ Field3(WrittenBondBlock[1], 6) = 3

\* the valence field of the k-th atom line (k from 1), the seventh field
\* from the end of the line
ValenceField(k) == Field3(os.lines[4 + k], Len(os.lines[4 + k]) - 21)

\* the claim's valence test on an order
InValenceBand(o) == 2 * o >= OrderScale /\ 2 * o < 7 * OrderScale

\* C6: the valence field of atom k is the number of other atoms whose order
\* with k lies in [0.5, 3.5); the bond count of the counts line is the number
\* of such pairs, which is half the sum of the valences; without bond data
\* all of them are 0.
C6_Valences ==
  (pc # "w_call" /\ format = "mol" /\ src = "os") =>
    LET N == Len(inAtoms)
        vf == [k \in 0..(N - 1) |-> ValenceField(k + 1)]
    IN  /\ Field3(os.lines[4], 0) = N
        /\ \A k \in 0..(N - 1) :
             vf[k] = Cardinality({m \in (0..(N - 1)) \ {k} : InValenceBand(InOrder(<<k, m>>))})
        /\ Field3(os.lines[4], 3) = Cardinality({p \in AllPairs(N) : InValenceBand(InOrder(p))})
        /\ 2 * Field3(os.lines[4], 3) = SumTo(vf, N - 1)
        /\ (~inBonds.present => Field3(os.lines[4], 3) = 0 /\ \A k \in 0..(N - 1) : vf[k] = 0)

\* one order of 0.49999 and one of 0.5 have been written: the atoms of the
\* second have valence 1, the third atom has valence 0
C6_Witness ==
  /\ pc = "w_done" /\ inBonds.present /\ Len(inAtoms) = 3
  /\ InOrder(<<0, 2>>) = 49999 /\ InOrder(<<0, 1>>) = 50000
  /\ ValenceField(1) = 1 /\ ValenceField(2) = 1 /\ ValenceField(3) = 0
  /\ Field3(os.lines[4], 3) = 1

\* C7: for an empty atom collection write returns, calls getOrder for no
\* pair, and leaves the three header lines, a counts line with 0 atoms and
\* 0 bonds, and "M END".
C7_EmptyMolecule ==
  /\ (pc = "w_call" /\ Len(inAtoms) = 0) => ENABLED Write
  /\ (pc # "w_call" /\ format = "mol" /\ src = "os" /\ Len(inAtoms) = 0) =>
       /\ queried = {}
       /\ Len(os.lines) = 5
       /\ os.lines[1] = NameLine
       /\ \E stamp \in Stamps : os.lines[2] = ProgramLine(stamp)
       /\ os.lines[3] = <<>>
       /\ Len(os.lines[4]) = 39
       /\ Field3(os.lines[4], 0) = 0
       /\ Field3(os.lines[4], 3) = 0
       /\ os.lines[5] = EndLine

\* an empty atom collection has been written together with bond data
C7_Witness == pc = "w_done" /\ Len(inAtoms) = 0 /\ inBonds.present /\ Len(os.lines) = 5

(***************************************************************************)
(* Properties of read                                                      *)
(***************************************************************************)
\* the 3-character field of l at offset pos is an unsigned integer that
\* takes all three characters
IsField3(l, pos) == stoul(SubStr(l, pos, 3)).ok /\ stoul(SubStr(l, pos, 3)).convertedChars = 3

\* l passes the checks of a counts line
Qualifies(l) == Len(l) >= 38 /\ IsField3(l, 0) /\ IsField3(l, 3)

\* C2: once the scan has selected a counts line whose version tag is V3000,
\* read fails with the Unsupported-Version error (std::logic_error) and has
\* consumed nothing after the counts line.
C2_V3000Rejected ==
  [][(pc = "r_scanned" /\ countsLineNo > 0 /\ VersionOf(line) = V3000)
       => (result' = "logic_error" /\ is'.pos = countsLineNo)]_vars

\* C3: in the scan, a line that fails a check is consumed and skipped; the
\* first line that passes ends the scan and its two counts are the ones the
\* rest of the parse uses; if the stream ends first, read fails with
\* Format-Mismatch.
C3_HeaderRecovery ==
  [][/\ (pc = "r_scan" /\ is'.pos = is.pos + 1 /\ ~Qualifies(lastLine')) => pc' = "r_scan"
     /\ (pc = "r_scan" /\ is'.pos = is.pos + 1 /\ Qualifies(lastLine'))
          => /\ pc' = "r_scanned"
             /\ countsLineNo' = is'.pos
             /\ atomBlockSize' = Field3(lastLine', 0)
             /\ bondBlockSize' = Field3(lastLine', 3)
     /\ (pc = "r_scan" /\ is'.pos = is.pos) => (pc' = "r_scanned" /\ countsLineNo' = 0)
     /\ (pc = "r_scanned" /\ countsLineNo = 0) => result' = "FormatMismatch"
     /\ (pc \in {"r_scanned", "r_atoms", "r_bonds"} /\ pc' # "r_done")
          => /\ atomBlockSize' = atomBlockSize
             /\ bondBlockSize' = bondBlockSize
             /\ atoms'.size = atomBlockSize]_vars

\* the fifth line, after three header lines and one skipped line, has been
\* taken as counts line with one atom
C3_Witness ==
  /\ pc = "r_atoms" /\ src = "env" /\ countsLineNo = 5 /\ is.pos = 5
  /\ Qualifies(lastLine) /\ atomBlockSize = 1 /\ atoms.size = 1

\* C4: while read runs the process-wide locale is "C"; when read has ended,
\* by returning or by one of its exceptions, the locale is the one the
\* caller had.
C4_LocaleRestored ==
  /\ pc \in {"r_header", "r_scan", "r_scanned", "r_atoms", "r_bonds"} => locale = "C"
  /\ (pc = "r_done" /\ result \in {"ok", "FormatMismatch", "logic_error", "range_error"})
       => locale = localeAtCall

\* read has failed with Format-Mismatch after the counts line, called with
\* a locale other than "C"
C4_Witness ==
  /\ pc = "r_done" /\ result = "FormatMismatch" /\ countsLineNo > 0 /\ is.pos > countsLineNo
  /\ localeAtCall = "de_DE" /\ locale = "de_DE"

\* C8: an atom line whose symbol field is not resolved, a blank field
\* included, makes read fail with Format-Mismatch and return nothing.
C8_UnknownElement ==
  [][(/\ pc = "r_atoms" /\ InAtomLoop
      /\ Len(lastLine') >= 34
      /\ ~elementTypeForSymbol(NormalizeSymbol(removeAllSpaces(SubStr(lastLine', 31, 3)))).ok)
       => (result' = "FormatMismatch" /\ ret' = NoRet)]_vars

AtDispatchCall == pc \in {"w_call", "r_call", "w_done"}

\* C11: a call of the dispatch-level read or of either dispatch-level write
\* with a format name other than "mol" ends with FormatUnsupported and
\* leaves the input stream, the output stream and the process-wide locale
\* as they were; a call with "mol" is not rejected; formatSupported is true
\* for "mol" and for no other name.
C11_FormatUnsupported ==
  /\ \A f \in Formats : formatSupported(f) <=> (f = "mol")
  /\ [][AtDispatchCall =>
          /\ format' # "mol" =>
               /\ result' = "FormatUnsupported"
               /\ pc' = (IF pc = "w_call" THEN "w_failed" ELSE "r_done")
               /\ is' = is
               /\ os' = os
               /\ queried' = queried
               /\ locale' = locale
               /\ scopedLocale' = scopedLocale
               /\ errno' = errno
          /\ format' = "mol" => (result' = result /\ pc' \in {"w_done", "r_header"})]_vars

\* read was asked for "MOL" on the text written for two atoms with bond
\* data: it was rejected and the stream is where it was
C11_Witness ==
  /\ pc = "r_done" /\ result = "FormatUnsupported" /\ format = "MOL"
  /\ src = "os" /\ inBonds.present /\ Len(inAtoms) = 2
  /\ Len(os.lines) >= 7 /\ is = [pos |-> 0, eof |-> FALSE, fail |-> FALSE]
  /\ locale = "de_DE" /\ scopedLocale = "none"

(***************************************************************************)
(* Truncated blocks                                                        *)
(***************************************************************************)
\* read is about to run one more iteration of the atom or of the bond block
InBlockLoop == (pc = "r_atoms" /\ InAtomLoop) \/ (pc = "r_bonds" /\ i < bondBlockSize)

\* C12: an iteration of the atom block or of the bond block that finds no
\* further line in the stream ends read with FormatMismatch, whether or not
\* the last line present ended with a newline; every iteration that goes on
\* has consumed a line of its own.
C12_TruncatedBlock ==
  [][InBlockLoop => (is'.pos = is.pos + 1 \/ result' = "FormatMismatch")]_vars

(***************************************************************************)
(* The domain of the returned bond-order collection                        *)
(***************************************************************************)
\* C13: every entry of the bond-order collection a successful read returns
\* joins two distinct 0-based atom indices that are both smaller than the
\* atom count of the counts line.
C13_BondDomain ==
  (pc = "r_done" /\ result = "ok") =>
    \A p \in DOMAIN ret.bonds.m :
      p[1] # p[2] /\ p[1] < ret.atoms.size /\ p[2] < ret.atoms.size

(***************************************************************************)
(* The counts of the writer                                                *)
(***************************************************************************)
\* every order handed to write lies in [0, 3.5]
OrdersInRange ==
  \A p \in AllPairs(Len(inAtoms)) : 0 <= InOrder(p) /\ 2 * InOrder(p) <= 7 * OrderScale

\* the lines of the written bond block that name atom k (0-based)
BondLinesNaming(k) ==
  {n \in 1..Len(WrittenBondBlock) :
     Field3(WrittenBondBlock[n], 0) = k + 1 \/ Field3(WrittenBondBlock[n], 3) = k + 1}

\* C14: in the text write produced for orders in [0, 3.5], the bond count of
\* the counts line is the number of lines of the bond block and the valence
\* field of every atom is the number of bond lines that name the atom.
C14_WriterConsistent ==
  (pc # "w_call" /\ format = "mol" /\ src = "os" /\ OrdersInRange) =>
    /\ Len(os.lines) = 5 + Len(inAtoms) + Field3(os.lines[4], 3)
    /\ Field3(os.lines[4], 3) = Len(WrittenBondBlock)
    /\ \A k \in 0..(Len(inAtoms) - 1) : ValenceField(k + 1) = Cardinality(BondLinesNaming(k))

\* three atoms have been written with the orders 0.5 and 3.5 on two pairs
\* that share the second atom: one bond line, counted once
C14_Witness ==
  /\ pc = "w_done" /\ format = "mol" /\ inBonds.present /\ Len(inAtoms) = 3
  /\ InOrder(<<0, 1>>) = 50000 /\ InOrder(<<1, 2>>) = 350000 /\ InOrder(<<0, 2>>) = 0
  /\ Field3(os.lines[4], 3) = 1 /\ Len(WrittenBondBlock) = 1
  /\ ValenceField(2) = 1 /\ ValenceField(3) = 0

(***************************************************************************)
(* A counts line at the end of the stream                                  *)
(***************************************************************************)
\* C15: when the scan has stopped at a line that qualifies as a counts line
\* and whose version tag is not V3000, read does not end with FormatMismatch
\* at that point, whether or not a newline follows the line; it goes on to
\* the atom block with the counts of that line.
C15_CountsLineAtEnd ==
  [][(pc = "r_scanned" /\ countsLineNo > 0 /\ Qualifies(line) /\ VersionOf(line) # V3000)
       => (result' = "none" /\ pc' = "r_atoms" /\ atoms'.size = Field3(line, 0))]_vars

====
